---------------------------- MODULE Spec2Model ----------------------------
(***************************************************************************)
(* A model of privalyse-mask's masking engine (src/src/privalyse_mask):    *)
(* PrivalyseMasker.__init__, mask, unmask and the helpers they call.       *)
(*                                                                         *)
(* A text is a sequence of one-character strings, so that slicing,         *)
(* lower-casing, substring search and str.replace are computed character   *)
(* by character as Python computes them.  Offsets are Python's: a span     *)
(* [start, end) is 0-based with an exclusive end.                          *)
(***************************************************************************)
EXTENDS Integers, Sequences, FiniteSets, TLC

(***************************************************************************)
(* Characters                                                              *)
(***************************************************************************)
LowerAlpha ==
    <<"a","b","c","d","e","f","g","h","i","j","k","l","m",
      "n","o","p","q","r","s","t","u","v","w","x","y","z">>

UpperAlpha ==
    <<"A","B","C","D","E","F","G","H","I","J","K","L","M",
      "N","O","P","Q","R","S","T","U","V","W","X","Y","Z">>

DigitChars == <<"0","1","2","3","4","5","6","7","8","9">>

HexDigits == <<"0","1","2","3","4","5","6","7","8","9","a","b","c","d","e","f">>

\* The other characters the texts of the model use; "sz" stands for the one
\* character U+00DF of "straße".
OtherChars == <<" ", "\t", "\n", ",", ".", "-", "@", "_", "{", "}", "+", "sz">>

AllChars == LowerAlpha \o UpperAlpha \o DigitChars \o OtherChars

Range(s) == {s[i] : i \in 1..Len(s)}

IndexIn(s, c) == CHOOSE i \in 1..Len(s) : s[i] = c

\* str.isdigit, str.isupper, str.isalpha, and the class \s of re, per character
IsDigit(c) == c \in Range(DigitChars)

IsUpper(c) == c \in Range(UpperAlpha)

IsAlpha(c) == c \in Range(LowerAlpha) \cup Range(UpperAlpha) \cup {"sz"}

IsSpace(c) == c \in {" ", "\t", "\n"}

\* str.lower and str.upper of one character
LowerChar(c) == IF IsUpper(c) THEN LowerAlpha[IndexIn(UpperAlpha, c)] ELSE c

UpperChar(c) ==
    IF c \in Range(LowerAlpha) THEN UpperAlpha[IndexIn(LowerAlpha, c)] ELSE c

(***************************************************************************)
(* Strings (Python's str operations the engine uses)                       *)
(***************************************************************************)
Lower(s) == [i \in 1..Len(s) |-> LowerChar(s[i])]

Upper(s) == [i \in 1..Len(s) |-> UpperChar(s[i])]

\* text[start:end] for 0 <= start <= end <= len(text)
Slice(s, start, end) == SubSeq(s, start + 1, end)

\* sub occurs in s at the 1-based position p
OccursAt(s, sub, p) ==
    /\ p >= 1
    /\ p + Len(sub) - 1 <= Len(s)
    /\ SubSeq(s, p, p + Len(sub) - 1) = sub

\* sub in s
Contains(s, sub) == \E p \in 1..(Len(s) + 1) : OccursAt(s, sub, p)

\* str.find from the 1-based position from: the first occurrence, or 0
FindFrom(s, sub, from) ==
    IF \E p \in from..(Len(s) + 1) : OccursAt(s, sub, p)
    THEN CHOOSE p \in from..(Len(s) + 1) :
            /\ OccursAt(s, sub, p)
            /\ \A q \in from..(p - 1) : ~OccursAt(s, sub, q)
    ELSE 0

RECURSIVE ReplaceFrom(_, _, _, _)
\* str.replace(old, new) on s from position from, for a non-empty old: the
\* occurrences are taken left to right and do not overlap
ReplaceFrom(s, old, new, from) ==
    LET p == FindFrom(s, old, from)
    IN  IF p = 0
        THEN SubSeq(s, from, Len(s))
        ELSE SubSeq(s, from, p - 1) \o new \o ReplaceFrom(s, old, new, p + Len(old))

RECURSIVE Interleave(_, _, _)
\* s.replace("", new): new before every character and at the end
Interleave(s, new, from) ==
    IF from > Len(s) THEN new
    ELSE new \o <<s[from]>> \o Interleave(s, new, from + 1)

\* Mutant: a replace that loses the text when old is not found.
ReplaceFoundOnly(s, old, new) ==
    IF ~Contains(s, old) THEN <<>>
    ELSE IF old = <<>> THEN Interleave(s, new, 1) ELSE ReplaceFrom(s, old, new, 1)

\* str.replace(old, new)
Replace(s, old, new) ==
    IF old = <<>> THEN Interleave(s, new, 1) ELSE ReplaceFrom(s, old, new, 1)

RECURSIVE CountFrom(_, _, _)
\* str.count(sub) for a non-empty sub: the occurrences str.replace rewrites
CountFrom(s, sub, from) ==
    LET p == FindFrom(s, sub, from)
    IN  IF p = 0 THEN 0 ELSE 1 + CountFrom(s, sub, p + Len(sub))

Count(s, sub) == IF sub = <<>> THEN Len(s) + 1 ELSE CountFrom(s, sub, 1)

RECURSIVE LStrip(_)
LStrip(s) == IF s # <<>> /\ IsSpace(s[1]) THEN LStrip(Tail(s)) ELSE s

RECURSIVE RStrip(_)
RStrip(s) ==
    IF s # <<>> /\ IsSpace(s[Len(s)]) THEN RStrip(SubSeq(s, 1, Len(s) - 1)) ELSE s

\* str.strip()
Strip(s) == RStrip(LStrip(s))

\* s.split(c)[-1]: what follows the last c (all of s when there is none)
AfterLast(s, c) ==
    LET ps == {p \in 1..Len(s) : s[p] = c}
    IN  IF ps = {} THEN s
        ELSE LET last == CHOOSE p \in ps : \A q \in ps : q <= p
             IN  SubSeq(s, last + 1, Len(s))

\* s.split(c)[0]: what precedes the first c (all of s when there is none)
BeforeFirst(s, c) ==
    LET ps == {p \in 1..Len(s) : s[p] = c}
    IN  IF ps = {} THEN s
        ELSE LET first == CHOOSE p \in ps : \A q \in ps : p <= q
             IN  SubSeq(s, 1, first - 1)

\* str.title(): a letter is upper-cased after a non-letter and lower-cased
\* after a letter
Title(s) ==
    [i \in 1..Len(s) |->
        IF i = 1 \/ ~IsAlpha(s[i - 1]) THEN UpperChar(s[i]) ELSE LowerChar(s[i])]

(***************************************************************************)
(* utils.py                                                                *)
(***************************************************************************)
\* The value of Python's None: no text holds this character.
None == <<"<None>">>

Code(c) == IndexIn(AllChars, c)

\* 16^5: the values of five hexadecimal digits
HashSpace == 16 * 16 * 16 * 16 * 16

RECURSIVE Md5Num(_, _)
\* hashlib.md5(data) read as a number below 16^5.  MD5 itself is not
\* computed: what the engine relies on is a fixed function of the bytes of
\* data, and that is what this polynomial is.
Md5Num(data, h) ==
    IF data = <<>> THEN h
    ELSE Md5Num(Tail(data), (h * 131 + Code(Head(data))) % HashSpace)

\* the first 5 characters of hexdigest()
HexDigest5(n) ==
    << HexDigits[((n \div 65536) % 16) + 1], HexDigits[((n \div 4096) % 16) + 1],
       HexDigits[((n \div 256) % 16) + 1], HexDigits[((n \div 16) % 16) + 1],
       HexDigits[(n % 16) + 1] >>

\* Mutant: the digest is cut one character short.
generate_hash_suffix_short(text, salt) ==
    SubSeq(HexDigest5(Md5Num(text \o salt, 54321)), 1, 4)

\* generate_hash_suffix(text, length=5, salt)
generate_hash_suffix(text, salt) == HexDigest5(Md5Num(text \o salt, 54321))

MonthNames ==
    << <<"J","a","n","u","a","r","y">>, <<"F","e","b","r","u","a","r","y">>,
       <<"M","a","r","c","h">>, <<"A","p","r","i","l">>, <<"M","a","y">>,
       <<"J","u","n","e">>, <<"J","u","l","y">>, <<"A","u","g","u","s","t">>,
       <<"S","e","p","t","e","m","b","e","r">>, <<"O","c","t","o","b","e","r">>,
       <<"N","o","v","e","m","b","e","r">>, <<"D","e","c","e","m","b","e","r">> >>

DigitsOf(s) == SelectSeq(s, IsDigit)

\* dateparser.parse(date_string, DATE_ORDER = DMY), a collaborator outside the
\* repository: a fixed function of the literal that fails (None) on a literal
\* without a digit and otherwise reads a month and a year off its digits.
dateparser_parse(date_string) ==
    LET ds == DigitsOf(date_string)
    IN  IF ds = <<>> THEN None
        ELSE LET d == IndexIn(DigitChars, ds[1]) - 1
             IN  << MonthNames[IF d = 0 THEN 10 ELSE d], <<"2", "0", "0", ds[Len(ds)]>> >>

\* parse_and_format_date(date_string)
parse_and_format_date(date_string) ==
    LET dt == dateparser_parse(date_string)
    IN  IF dt # None
        THEN <<"{","D","a","t","e","_">> \o dt[1] \o <<"_">> \o dt[2] \o <<"}">>
        ELSE <<"{","D","a","t","e","_","G","e","n","e","r","a","l","}">>

(***************************************************************************)
(* core.py: surrogate generation                                           *)
(***************************************************************************)
PERSON == <<"P","E","R","S","O","N">>

DATE_TIME == <<"D","A","T","E","_","T","I","M","E">>

IBAN_CODE == <<"I","B","A","N","_","C","O","D","E">>

DE_ID_CARD == <<"D","E","_","I","D","_","C","A","R","D">>

EMAIL_ADDRESS == <<"E","M","A","I","L","_","A","D","D","R","E","S","S">>

PHONE_NUMBER == <<"P","H","O","N","E","_","N","U","M","B","E","R">>

LOCATION == <<"L","O","C","A","T","I","O","N">>

NRP == <<"N","R","P">>

\* Categories without a handler of their own: two compound document tags and
\* one that falls through to the default.
US_PASSPORT == <<"U","S","_","P","A","S","S","P","O","R","T">>

US_DRIVER_LICENSE == <<"U","S","_","D","R","I","V","E","R","_","L","I","C","E","N","S","E">>

URL == <<"U","R","L">>

\* _COUNTRY_MAP.get(code, code)
COUNTRY_MAP_get(code) ==
    CASE code = <<"D","E">> -> <<"G","e","r","m","a","n">>
      [] code = <<"U","S">> -> <<"U","S">>
      [] code = <<"G","B">> -> <<"U","K">>
      [] code = <<"F","R">> -> <<"F","r","e","n","c","h">>
      [] code = <<"E","S">> -> <<"S","p","a","n","i","s","h">>
      [] code = <<"I","T">> -> <<"I","t","a","l","i","a","n">>
      [] code = <<"N","L">> -> <<"D","u","t","c","h">>
      [] code = <<"A","T">> -> <<"A","u","s","t","r","i","a","n">>
      [] OTHER -> code

ADDRESS_INDICATORS ==
    { <<"s","t","r","e","e","t">>, <<"s","t",".">>, <<"r","o","a","d">>, <<"r","d",".">>,
      <<"a","v","e","n","u","e">>, <<"a","v","e",".">>, <<"t","e","r","r","a","c","e">>,
      <<"l","a","n","e">>, <<"d","r","i","v","e">>, <<"w","a","y">>,
      <<"p","l","a","t","z">>, <<"s","t","r","a","sz","e">>, <<"s","t","r",".">>,
      <<"w","e","g">>, <<"g","a","s","s","e">>, <<"a","l","l","e","e">> }

_surrogate_for_person(value, seed) ==
    <<"{","N","a","m","e","_">> \o generate_hash_suffix(value, seed) \o <<"}">>

_surrogate_for_date(value) == parse_and_format_date(value)

_surrogate_for_iban(value) ==
    LET country_code == Upper(SubSeq(value, 1, IF Len(value) < 2 THEN Len(value) ELSE 2))
    IN  IF country_code # <<>> /\ \A i \in 1..Len(country_code) : IsAlpha(country_code[i])
        THEN <<"{">> \o COUNTRY_MAP_get(country_code) \o <<"_","I","B","A","N","}">>
        ELSE <<"{","I","B","A","N","}">>

_surrogate_for_german_id(value) == <<"{","G","e","r","m","a","n","_","I","D","}">>

_surrogate_for_id_document(entity_type, value) ==
    LET first == BeforeFirst(entity_type, "_")
    IN  IF "_" \in Range(entity_type) /\ Len(first) = 2
        THEN <<"{">> \o COUNTRY_MAP_get(first) \o <<"_">>
               \o Title(SubSeq(entity_type, Len(first) + 2, Len(entity_type))) \o <<"}">>
        ELSE <<"{">> \o entity_type \o <<"}">>

\* Mutant: the part before the first "@" is kept instead of the domain.
_surrogate_for_email_local_part(value) ==
    IF "@" \in Range(value)
    THEN <<"{","E","m","a","i","l","_","a","t","_">> \o BeforeFirst(value, "@") \o <<"}">>
    ELSE <<"{","E","m","a","i","l","}">>

_surrogate_for_email(value) ==
    IF "@" \in Range(value)
    THEN <<"{","E","m","a","i","l","_","a","t","_">> \o AfterLast(value, "@") \o <<"}">>
    ELSE <<"{","E","m","a","i","l","}">>

\* phonenumbers.parse(value, None) and region_code_for_number, collaborators
\* outside the repository: a number parses only with a leading "+", and the
\* digit after it gives the region (None when it gives none).
phonenumbers_region(value) ==
    IF Len(value) >= 2 /\ value[1] = "+" /\ IsDigit(value[2])
    THEN CASE value[2] = "1" -> <<"U","S">>
           [] value[2] = "4" -> <<"D","E">>
           [] OTHER -> None
    ELSE None

_surrogate_for_phone(value) ==
    LET region_code == phonenumbers_region(value)
    IN  IF region_code # None
        THEN <<"{","P","h","o","n","e","_">> \o region_code \o <<"}">>
        ELSE <<"{","P","h","o","n","e","}">>

\* Mutant: every location is masked as an address.
_surrogate_for_location_always(value, seed) ==
    <<"{","A","d","d","r","e","s","s","_">> \o generate_hash_suffix(value, seed) \o <<"}">>

_surrogate_for_location(value, seed) ==
    LET lower_val == Lower(value)
        has_digits == \E i \in 1..Len(value) : IsDigit(value[i])
        has_address_indicator == \E ind \in ADDRESS_INDICATORS : Contains(lower_val, ind)
        potential_city == Strip(AfterLast(value, ","))
    IN  IF has_digits \/ has_address_indicator
        THEN IF /\ "," \in Range(value)
                /\ potential_city # <<>>
                /\ ~\E i \in 1..Len(potential_city) : IsDigit(potential_city[i])
                /\ IsUpper(potential_city[1])
             THEN <<"{","A","d","d","r","e","s","s","_","i","n","_">>
                    \o potential_city \o <<"}">>
             ELSE <<"{","A","d","d","r","e","s","s","_">>
                    \o generate_hash_suffix(value, seed) \o <<"}">>
        ELSE None

_surrogate_for_nationality(value, seed) ==
    <<"{","N","a","t","i","o","n","a","l","i","t","y","_">>
      \o generate_hash_suffix(value, seed) \o <<"}">>

\* _generate_surrogate(entity_type, value): the dispatch over
\* _SURROGATE_HANDLERS, the compound document tags, the default
\* Mutant: every category is masked as its bare tag.
_generate_surrogate_bare_tag(entity_type, value, seed) ==
    <<"{">> \o entity_type \o <<"}">>

_generate_surrogate(entity_type, value, seed) ==
    CASE entity_type = PERSON -> _surrogate_for_person(value, seed)
      [] entity_type = DATE_TIME -> _surrogate_for_date(value)
      [] entity_type = IBAN_CODE -> _surrogate_for_iban(value)
      [] entity_type = DE_ID_CARD -> _surrogate_for_german_id(value)
      [] entity_type = EMAIL_ADDRESS -> _surrogate_for_email(value)
      [] entity_type = PHONE_NUMBER -> _surrogate_for_phone(value)
      [] entity_type = LOCATION -> _surrogate_for_location(value, seed)
      [] entity_type = NRP -> _surrogate_for_nationality(value, seed)
      [] OTHER ->
            IF \E keyword \in { <<"P","A","S","S","P","O","R","T">>,
                                <<"D","R","I","V","E","R","_","L","I","C","E","N","S","E">>,
                                <<"I","D">> } : Contains(entity_type, keyword)
            THEN _surrogate_for_id_document(entity_type, value)
            ELSE <<"{">> \o entity_type \o <<"_">>
                   \o generate_hash_suffix(value, seed) \o <<"}">>

(***************************************************************************)
(* core.py: the engine                                                     *)
(***************************************************************************)
STOP_WORDS ==
    { <<"i","c","h">>, <<"d","u">>, <<"e","r">>, <<"s","i","e">>, <<"e","s">>, <<"w","i","r">>,
      <<"i","h","r">>, <<"m","e","i","n">>, <<"d","e","i","n">>, <<"s","e","i","n">>,
      <<"u","n","s","e","r">>, <<"e","u","e","r">>, <<"d","e","r">>, <<"d","i","e">>,
      <<"d","a","s">>, <<"i">>, <<"m","e">>, <<"m","y">>, <<"m","y","s","e","l","f">>,
      <<"w","e">>, <<"o","u","r">>, <<"o","u","r","s">>, <<"o","u","r","s","e","l","v","e","s">>,
      <<"y","o","u">>, <<"y","o","u","r">>, <<"y","o","u","r","s">>,
      <<"y","o","u","r","s","e","l","f">>, <<"y","o","u","r","s","e","l","v","e","s">>,
      <<"h","e">>, <<"h","i","m">>, <<"h","i","s">>, <<"h","i","m","s","e","l","f">>,
      <<"s","h","e">>, <<"h","e","r">>, <<"h","e","r","s">>, <<"h","e","r","s","e","l","f">>,
      <<"i","t">>, <<"i","t","s">>, <<"i","t","s","e","l","f">>, <<"t","h","e","y">>,
      <<"t","h","e","m">>, <<"t","h","e","i","r">>, <<"t","h","e","i","r","s">>,
      <<"t","h","e","m","s","e","l","v","e","s">> }

VARIABLES
    analyzer,        \* self.analyzer: "engine", or "None" when __init__ failed
    allow_list,      \* self.allow_list
    seed,            \* self.seed
    allow_list_arg,  \* the allow_list argument __init__ was given
    pc,              \* where the call in progress stands: "done" once it has
                     \* returned or raised, "idle" once its frame is gone
    text,            \* mask: the text argument
    analyzed,        \* mask: what self.analyzer.analyze() returned
    results,         \* mask: the list a loop runs over
    current,         \* _remove_overlaps, _merge_adjacent_dates: current
    idx,             \* the position in results of the loop's next item
    final_results,   \* _remove_overlaps: final_results
    merged_results,  \* _merge_adjacent_dates: merged_results
    masked_text,     \* mask: masked_text; unmask: the masked_text argument
    mapping,         \* mask: mapping; unmask: the mapping argument
    items,           \* unmask: the sorted items not yet applied
    unmasked_text,   \* unmask: unmasked_text
    ret,             \* what the last call returned or raised
    step,            \* what the last loop iteration saw and did
    applied,         \* unmask: the keys applied so far, with the text before each
    roundtrip,       \* the unmask in progress or returned is unmask(*mask(text))
    data,            \* mask_struct: the data argument
    other            \* the calls another thread made on the engine while the
                     \* call in progress was running

vars ==
    << analyzer, allow_list, seed, allow_list_arg, pc, text, analyzed, results, current, idx, final_results,
       merged_results, masked_text, mapping, items, unmasked_text, ret, step,
       applied, roundtrip, data, other >>

engine_state == <<analyzer, allow_list, seed, allow_list_arg>>

NoSpan == [entity_type |-> <<>>, start |-> 0, end |-> 0, score |-> 0]

NoStep ==
    [op |-> "none", current |-> NoSpan, next |-> NoSpan, kept |-> NoSpan,
     gap |-> <<>>, entity_text |-> <<>>, surrogate |-> None]

NoRet == [kind |-> "none", text |-> <<>>, mapping |-> <<>>]

NoData == [kind |-> "none", val |-> <<>>, spans |-> <<>>, keys |-> <<>>, items |-> <<>>]

(***************************************************************************)
(* A dict is the sequence of its items <<key, value>> in insertion order.  *)
(***************************************************************************)
Keys(m) == {m[i][1] : i \in 1..Len(m)}

Values(m) == {m[i][2] : i \in 1..Len(m)}

Get(m, k) == m[CHOOSE i \in 1..Len(m) : m[i][1] = k][2]

\* Mutant: a key that is present keeps its value.
DictSetKeepFirst(m, k, v) ==
    IF k \in Keys(m) THEN m ELSE Append(m, <<k, v>>)

\* m[k] = v: a new key is appended, an old key keeps its place
DictSet(m, k, v) ==
    IF k \in Keys(m)
    THEN [i \in 1..Len(m) |-> IF m[i][1] = k THEN <<k, v>> ELSE m[i]]
    ELSE Append(m, <<k, v>>)

(***************************************************************************)
(* list.sort and sorted: stable                                            *)
(***************************************************************************)
RECURSIVE InsertByStart(_, _)
InsertByStart(sorted, x) ==
    IF sorted = <<>> THEN <<x>>
    ELSE IF x.start < Head(sorted).start THEN <<x>> \o sorted
    ELSE <<Head(sorted)>> \o InsertByStart(Tail(sorted), x)

RECURSIVE SortByStartFrom(_, _)
SortByStartFrom(sorted, rest) ==
    IF rest = <<>> THEN sorted
    ELSE SortByStartFrom(InsertByStart(sorted, Head(rest)), Tail(rest))

\* sorted(results, key=lambda x: x.start)
SortByStart(rs) == SortByStartFrom(<<>>, rs)

RECURSIVE InsertByStartDesc(_, _)
InsertByStartDesc(sorted, x) ==
    IF sorted = <<>> THEN <<x>>
    ELSE IF x.start > Head(sorted).start THEN <<x>> \o sorted
    ELSE <<Head(sorted)>> \o InsertByStartDesc(Tail(sorted), x)

RECURSIVE SortByStartDescFrom(_, _)
SortByStartDescFrom(sorted, rest) ==
    IF rest = <<>> THEN sorted
    ELSE SortByStartDescFrom(InsertByStartDesc(sorted, Head(rest)), Tail(rest))

\* Mutant: the sort forgets reverse=True.
SortByStartDesc_ascending(rs) == SortByStart(rs)

\* results.sort(key=lambda x: x.start, reverse=True)
SortByStartDesc(rs) == SortByStartDescFrom(<<>>, rs)

RECURSIVE InsertByKeyLenDesc(_, _)
InsertByKeyLenDesc(sorted, x) ==
    IF sorted = <<>> THEN <<x>>
    ELSE IF Len(x[1]) > Len(Head(sorted)[1]) THEN <<x>> \o sorted
    ELSE <<Head(sorted)>> \o InsertByKeyLenDesc(Tail(sorted), x)

RECURSIVE SortByKeyLenDescFrom(_, _)
SortByKeyLenDescFrom(sorted, rest) ==
    IF rest = <<>> THEN sorted
    ELSE SortByKeyLenDescFrom(InsertByKeyLenDesc(sorted, Head(rest)), Tail(rest))

\* sorted(mapping.items(), key=lambda x: len(x[0]), reverse=True)
SortByKeyLenDesc(m) == SortByKeyLenDescFrom(<<>>, m)

(***************************************************************************)
(* PrivalyseMasker.__init__                                                *)
(***************************************************************************)
\* __init__(languages, allow_list, seed, model_size): whether the analyzer
\* loads (engine_loads) is the environment's choice.
Construct(allow_list_arg_, seed_arg, engine_loads) ==
    /\ allow_list =
         {Lower(allow_list_arg_[i]) : i \in 1..Len(allow_list_arg_)} \cup STOP_WORDS
    /\ seed = seed_arg
    /\ allow_list_arg = allow_list_arg_
    /\ analyzer = IF engine_loads THEN "engine" ELSE "None"
    /\ pc = "idle"
    /\ text = <<>>
    /\ analyzed = <<>>
    /\ results = <<>>
    /\ current = NoSpan
    /\ idx = 0
    /\ final_results = <<>>
    /\ merged_results = <<>>
    /\ masked_text = <<>>
    /\ mapping = <<>>
    /\ items = <<>>
    /\ unmasked_text = <<>>
    /\ ret = NoRet
    /\ step = NoStep
    /\ applied = <<>>
    /\ roundtrip = FALSE
    /\ data = NoData
    /\ other = <<>>

(***************************************************************************)
(* PrivalyseMasker.mask                                                    *)
(***************************************************************************)
\* Mutants of the guard: it never fires; it is inverted.
analyzer_never_missing(a) == FALSE

analyzer_missing_inverted(a) == a # "None"

\* not self.analyzer
analyzer_missing(a) == a = "None"

\* mask(text, language): the guard on the analyzer, analyze(), and the entry
\* of _remove_overlaps up to its loop.  analyzed_arg is what
\* self.analyzer.analyze(text, language) returns.
MaskCall(text_arg, analyzed_arg) ==
    /\ pc = "idle"
    /\ step' = NoStep
    /\ applied' = <<>>
    /\ roundtrip' = FALSE
    /\ items' = <<>>
    /\ unmasked_text' = <<>>
    /\ final_results' = <<>>
    /\ merged_results' = <<>>
    /\ UNCHANGED << engine_state, data, other >>
    /\ IF analyzer_missing(analyzer)
       THEN \* raise RuntimeError("Analyzer not initialized.")
            /\ ret' = [kind |-> "RuntimeError", text |-> <<>>, mapping |-> <<>>]
            /\ pc' = "done"
            /\ text' = text_arg
            /\ analyzed' = <<>>
            /\ results' = <<>>
            /\ current' = NoSpan
            /\ idx' = 0
            /\ masked_text' = <<>>
            /\ mapping' = <<>>
       ELSE /\ ret' = NoRet
            /\ text' = text_arg
            /\ analyzed' = analyzed_arg
            /\ IF analyzed_arg = <<>>
               THEN \* _remove_overlaps and _merge_adjacent_dates return [] at
                    \* once; the substitution loop has nothing to run over
                    /\ results' = <<>>
                    /\ current' = NoSpan
                    /\ idx' = 1
                    /\ masked_text' = text_arg
                    /\ mapping' = <<>>
                    /\ pc' = "subst"
               ELSE /\ results' = SortByStart(analyzed_arg)
                    /\ current' = results'[1]
                    /\ idx' = 2
                    /\ masked_text' = <<>>
                    /\ mapping' = <<>>
                    /\ pc' = "resolve"

(***************************************************************************)
(* PrivalyseMasker._remove_overlaps                                        *)
(***************************************************************************)
\* Mutant: the overlap test reads the wrong end.
overlap_detected_by_end(next_result, cur) == next_result.end < cur.end

\* next_result.start < current.end
overlap_detected(next_result, cur) == next_result.start < cur.end

\* Mutant: on equal scores a span of equal length replaces the current one.
next_replaces_current_on_tie(next_result, cur) ==
    \/ next_result.score > cur.score
    \/ /\ next_result.score = cur.score
       /\ (next_result.end - next_result.start) >= (cur.end - cur.start)

\* the two branches that make next_result the current span
next_replaces_current(next_result, cur) ==
    \/ next_result.score > cur.score
    \/ /\ next_result.score = cur.score
       /\ (next_result.end - next_result.start) > (cur.end - cur.start)

\* one iteration of: for next_result in results[1:]
ResolveStep ==
    /\ pc = "resolve"
    /\ idx <= Len(results)
    /\ LET next_result == results[idx]
       IN  IF overlap_detected(next_result, current)
           THEN /\ current' = IF next_replaces_current(next_result, current)
                              THEN next_result ELSE current
                /\ final_results' = final_results
                /\ step' = [NoStep EXCEPT !.op = "overlap", !.current = current,
                                          !.next = next_result, !.kept = current']
           ELSE /\ final_results' = Append(final_results, current)
                /\ current' = next_result
                /\ step' = [NoStep EXCEPT !.op = "disjoint", !.current = current,
                                          !.next = next_result, !.kept = current']
    /\ idx' = idx + 1
    /\ UNCHANGED << engine_state, data, other, pc, text, analyzed, results, merged_results, masked_text,
                    mapping, items, unmasked_text, ret, applied, roundtrip >>

\* after the loop: final_results.append(current); return final_results.  mask
\* passes the list to _merge_adjacent_dates, which sorts it and enters its loop.
ResolveDone ==
    /\ pc = "resolve"
    /\ idx > Len(results)
    /\ final_results' = Append(final_results, current)
    /\ results' = SortByStart(final_results')
    /\ current' = results'[1]
    /\ idx' = 2
    /\ merged_results' = <<>>
    /\ pc' = "merge"
    /\ step' = NoStep
    /\ UNCHANGED << engine_state, data, other, text, analyzed, masked_text, mapping, items, unmasked_text,
                    ret, applied, roundtrip >>

(***************************************************************************)
(* PrivalyseMasker._merge_adjacent_dates                                   *)
(***************************************************************************)
\* re.match(r"^[\s,.-]+$", gap)
gap_pattern_matches(gap) ==
    /\ gap # <<>>
    /\ \A i \in 1..Len(gap) : IsSpace(gap[i]) \/ gap[i] \in {",", ".", "-"}

\* Mutant: the length bound is off by one.
gap_allows_merge_below_3(gap) == Len(gap) < 3 /\ gap_pattern_matches(gap)

\* len(gap) <= 3 and re.match(...)
gap_allows_merge(gap) == Len(gap) <= 3 /\ gap_pattern_matches(gap)

\* current.entity_type == "DATE_TIME" and next_result.entity_type == "DATE_TIME"
both_date_time(cur, next_result) ==
    cur.entity_type = DATE_TIME /\ next_result.entity_type = DATE_TIME

Max(a, b) == IF a >= b THEN a ELSE b

\* one iteration of: for next_result in sorted_results[1:]
MergeStep ==
    /\ pc = "merge"
    /\ idx <= Len(results)
    /\ LET next_result == results[idx]
           gap == Slice(text, current.end, next_result.start)
       IN  IF both_date_time(current, next_result) /\ gap_allows_merge(gap)
           THEN /\ current' = [current EXCEPT !.end = next_result.end,
                                     !.score = Max(current.score, next_result.score)]
                /\ merged_results' = merged_results
                /\ step' = [NoStep EXCEPT !.op = "merged", !.current = current,
                                          !.next = next_result, !.kept = current',
                                          !.gap = gap]
           ELSE /\ merged_results' = Append(merged_results, current)
                /\ current' = next_result
                /\ step' = [NoStep EXCEPT !.op = "separate", !.current = current,
                                          !.next = next_result, !.kept = current',
                                          !.gap = gap]
    /\ idx' = idx + 1
    /\ UNCHANGED << engine_state, data, other, pc, text, analyzed, results, final_results, masked_text,
                    mapping, items, unmasked_text, ret, applied, roundtrip >>

\* after the loop: merged_results.append(current); return.  mask sorts the list
\* by start, descending, and enters the substitution loop.
MergeDone ==
    /\ pc = "merge"
    /\ idx > Len(results)
    /\ merged_results' = Append(merged_results, current)
    /\ results' = SortByStartDesc(merged_results')
    /\ masked_text' = text
    /\ mapping' = <<>>
    /\ idx' = 1
    /\ current' = NoSpan
    /\ pc' = "subst"
    /\ step' = NoStep
    /\ UNCHANGED << engine_state, data, other, text, analyzed, final_results, items, unmasked_text, ret,
                    applied, roundtrip >>

(***************************************************************************)
(* PrivalyseMasker.mask: the substitution loop                             *)
(***************************************************************************)
\* Mutant: the literal is looked up as it is written.
in_allow_list_case_sensitive(entity_text, allowed) == entity_text \in allowed

\* entity_text.lower() in self.allow_list
in_allow_list(entity_text, allowed) == Lower(entity_text) \in allowed

\* Mutant: the tail of the working text is taken one character late.
substitute_tail_late(masked, result, surrogate) ==
    SubSeq(masked, 1, result.start) \o surrogate \o SubSeq(masked, result.end + 2, Len(masked))

\* masked_text[:result.start] + surrogate + masked_text[result.end:]
substitute(masked, result, surrogate) ==
    SubSeq(masked, 1, result.start) \o surrogate \o SubSeq(masked, result.end + 1, Len(masked))

\* one iteration of: for result in results
SubstStep ==
    /\ pc = "subst"
    /\ idx <= Len(results)
    /\ LET result == results[idx]
           entity_text == Slice(text, result.start, result.end)
           surrogate == _generate_surrogate(result.entity_type, entity_text, seed)
       IN  IF in_allow_list(entity_text, allow_list)
           THEN /\ UNCHANGED <<masked_text, mapping>>
                /\ step' = [NoStep EXCEPT !.op = "allowed", !.current = result,
                                          !.entity_text = entity_text]
           ELSE IF surrogate = None
           THEN /\ UNCHANGED <<masked_text, mapping>>
                /\ step' = [NoStep EXCEPT !.op = "visible", !.current = result,
                                          !.entity_text = entity_text]
           ELSE /\ mapping' = DictSet(mapping, surrogate, entity_text)
                /\ masked_text' = substitute(masked_text, result, surrogate)
                /\ step' = [NoStep EXCEPT !.op = "masked", !.current = result,
                                          !.entity_text = entity_text,
                                          !.surrogate = surrogate]
    /\ idx' = idx + 1
    /\ UNCHANGED << engine_state, data, other, pc, text, analyzed, results, current, final_results,
                    merged_results, items, unmasked_text, ret, applied, roundtrip >>

\* Mutant: the mapping is kept where every thread's call writes it.
MaskReturnSharedMapping ==
    /\ pc = "subst"
    /\ idx > Len(results)
    /\ ret' = [kind |-> "mask", text |-> masked_text,
               mapping |-> IF other = <<>> THEN mapping
                           ELSE other[1].ret.mapping \o mapping]
    /\ pc' = "done"
    /\ step' = NoStep
    /\ UNCHANGED << engine_state, data, other, text, analyzed, results, current, idx,
                    final_results, merged_results, masked_text, mapping, items,
                    unmasked_text, applied, roundtrip >>

\* return masked_text, mapping
MaskReturn ==
    /\ pc = "subst"
    /\ idx > Len(results)
    /\ ret' = [kind |-> "mask", text |-> masked_text, mapping |-> mapping]
    /\ pc' = "done"
    /\ step' = NoStep
    /\ UNCHANGED << engine_state, data, other, text, analyzed, results, current, idx, final_results,
                    merged_results, masked_text, mapping, items, unmasked_text,
                    applied, roundtrip >>

(***************************************************************************)
(* PrivalyseMasker.unmask                                                  *)
(***************************************************************************)
\* Mutant: the items are visited in the mapping's own order.
unmask_order_unsorted(mapping_arg) == mapping_arg

\* the order in which unmask visits the items of the mapping
unmask_order(mapping_arg) == SortByKeyLenDesc(mapping_arg)

\* unmask(masked_text, mapping) up to its loop; is_roundtrip records that the
\* arguments are the pair the last mask call returned for text.
UnmaskEnter(masked_text_arg, mapping_arg, is_roundtrip) ==
    /\ pc = "done" \/ (pc = "idle" /\ ~is_roundtrip)
    /\ masked_text' = masked_text_arg
    /\ mapping' = mapping_arg
    /\ unmasked_text' = masked_text_arg
    /\ items' = unmask_order(mapping_arg)
    /\ applied' = <<>>
    /\ roundtrip' = is_roundtrip
    /\ text' = IF is_roundtrip THEN text ELSE <<>>
    /\ analyzed' = <<>>
    /\ results' = <<>>
    /\ current' = NoSpan
    /\ idx' = 0
    /\ final_results' = <<>>
    /\ merged_results' = <<>>
    /\ ret' = NoRet
    /\ step' = NoStep
    /\ pc' = "unmask"
    /\ UNCHANGED << engine_state, data, other >>

\* one iteration of: for surrogate, original in sorted(...)
UnmaskStep ==
    /\ pc = "unmask"
    /\ items # <<>>
    /\ LET surrogate == Head(items)[1]
           original == Head(items)[2]
       IN  /\ unmasked_text' = Replace(unmasked_text, surrogate, original)
           /\ applied' = Append(applied, [key |-> surrogate, before |-> unmasked_text])
    /\ items' = Tail(items)
    /\ UNCHANGED << engine_state, data, other, pc, text, analyzed, results, current, idx, final_results,
                    merged_results, masked_text, mapping, ret, step, roundtrip >>

\* return unmasked_text
UnmaskReturn ==
    /\ pc = "unmask"
    /\ items = <<>>
    /\ ret' = [kind |-> "unmask", text |-> unmasked_text, mapping |-> <<>>]
    /\ pc' = "done"
    /\ UNCHANGED << engine_state, data, other, text, analyzed, results, current, idx, final_results,
                    merged_results, masked_text, mapping, items, unmasked_text,
                    step, applied, roundtrip >>

\* The caller has taken what the call returned; the call's locals are gone.
\* Nothing of a call outlives it but the engine's three attributes.
Discard ==
    /\ pc = "done"
    /\ pc' = "idle"
    /\ text' = <<>>
    /\ analyzed' = <<>>
    /\ results' = <<>>
    /\ current' = NoSpan
    /\ idx' = 0
    /\ final_results' = <<>>
    /\ merged_results' = <<>>
    /\ masked_text' = <<>>
    /\ mapping' = <<>>
    /\ items' = <<>>
    /\ unmasked_text' = <<>>
    /\ ret' = NoRet
    /\ step' = NoStep
    /\ applied' = <<>>
    /\ roundtrip' = FALSE
    /\ data' = NoData
    /\ other' = <<>>
    /\ UNCHANGED engine_state

(***************************************************************************)
(* The calls, each as the function of its arguments and of the engine's    *)
(* attributes that its code computes                                       *)
(***************************************************************************)
\* _remove_overlaps: for next_result in results[1:]
RECURSIVE remove_overlaps_loop(_, _, _)
remove_overlaps_loop(cur, rest, final) ==
    IF rest = <<>> THEN Append(final, cur)
    ELSE LET next_result == Head(rest)
         IN  IF overlap_detected(next_result, cur)
             THEN remove_overlaps_loop(
                      IF next_replaces_current(next_result, cur) THEN next_result ELSE cur,
                      Tail(rest), final)
             ELSE remove_overlaps_loop(next_result, Tail(rest), Append(final, cur))

_remove_overlaps(results_arg) ==
    IF results_arg = <<>> THEN <<>>
    ELSE LET sorted == SortByStart(results_arg)
         IN  remove_overlaps_loop(Head(sorted), Tail(sorted), <<>>)

\* _merge_adjacent_dates: for next_result in sorted_results[1:]
RECURSIVE merge_adjacent_dates_loop(_, _, _, _)
merge_adjacent_dates_loop(text_arg, cur, rest, merged) ==
    IF rest = <<>> THEN Append(merged, cur)
    ELSE LET next_result == Head(rest)
             gap == Slice(text_arg, cur.end, next_result.start)
         IN  IF both_date_time(cur, next_result) /\ gap_allows_merge(gap)
             THEN merge_adjacent_dates_loop(
                      text_arg,
                      [cur EXCEPT !.end = next_result.end,
                                  !.score = Max(cur.score, next_result.score)],
                      Tail(rest), merged)
             ELSE merge_adjacent_dates_loop(text_arg, next_result, Tail(rest),
                                            Append(merged, cur))

_merge_adjacent_dates(text_arg, results_arg) ==
    IF results_arg = <<>> THEN <<>>
    ELSE LET sorted == SortByStart(results_arg)
         IN  merge_adjacent_dates_loop(text_arg, Head(sorted), Tail(sorted), <<>>)

\* mask: for result in results
RECURSIVE mask_loop(_, _, _, _, _, _)
mask_loop(text_arg, rest, masked, map, allowed, sd) ==
    IF rest = <<>> THEN [text |-> masked, mapping |-> map]
    ELSE LET result == Head(rest)
             entity_text == Slice(text_arg, result.start, result.end)
             surrogate == _generate_surrogate(result.entity_type, entity_text, sd)
         IN  IF in_allow_list(entity_text, allowed) \/ surrogate = None
             THEN mask_loop(text_arg, Tail(rest), masked, map, allowed, sd)
             ELSE mask_loop(text_arg, Tail(rest), substitute(masked, result, surrogate),
                            DictSet(map, surrogate, entity_text), allowed, sd)

\* mask on an engine with an analyzer that returns analyzed_arg for the text
mask(text_arg, analyzed_arg, allowed, sd) ==
    mask_loop(text_arg,
              SortByStartDesc(_merge_adjacent_dates(text_arg, _remove_overlaps(analyzed_arg))),
              text_arg, <<>>, allowed, sd)

RECURSIVE unmask_loop(_, _)
unmask_loop(sorted_items, unmasked) ==
    IF sorted_items = <<>> THEN unmasked
    ELSE unmask_loop(Tail(sorted_items),
                     Replace(unmasked, Head(sorted_items)[1], Head(sorted_items)[2]))

unmask(masked_text_arg, mapping_arg) ==
    unmask_loop(unmask_order(mapping_arg), masked_text_arg)

(***************************************************************************)
(* PrivalyseMasker.mask_struct                                             *)
(*                                                                         *)
(* A value is a record: a str with the spans analyze() returns for it, a   *)
(* list of values, a dict with its keys and their values in insertion      *)
(* order, or another primitive.                                            *)
(***************************************************************************)
StrValue(s, spans) ==
    [kind |-> "str", val |-> s, spans |-> spans, keys |-> <<>>, items |-> <<>>]

OtherValue(v) ==
    [kind |-> "other", val |-> v, spans |-> <<>>, keys |-> <<>>, items |-> <<>>]

ListValue(items_) ==
    [kind |-> "list", val |-> <<>>, spans |-> <<>>, keys |-> <<>>, items |-> items_]

DictValue(keys_, values_) ==
    [kind |-> "dict", val |-> <<>>, spans |-> <<>>, keys |-> keys_, items |-> values_]

\* Mutant: an entry already in the combined mapping is kept.
DictUpdateKeepFirst(m, n) ==
    m \o SelectSeq(n, LAMBDA item : item[1] \notin Keys(m))

\* dict.update(n)
RECURSIVE DictUpdate(_, _)
DictUpdate(m, n) ==
    IF n = <<>> THEN m ELSE DictUpdate(DictSet(m, Head(n)[1], Head(n)[2]), Tail(n))

\* recursive_mask(item) with combined_mapping as it stands: the value returned
\* and combined_mapping afterwards
RECURSIVE recursive_mask(_, _, _, _)
RECURSIVE recursive_mask_items(_, _, _, _)
recursive_mask(item, combined, allowed, sd) ==
    IF item.kind = "str"
    THEN LET r == mask(item.val, item.spans, allowed, sd)
         IN  [value |-> StrValue(r.text, <<>>), mapping |-> DictUpdate(combined, r.mapping)]
    ELSE IF item.kind \in {"dict", "list"}
    THEN LET r == recursive_mask_items(item.items, combined, allowed, sd)
         IN  [value |-> [item EXCEPT !.items = r.items], mapping |-> r.mapping]
    ELSE [value |-> item, mapping |-> combined]

\* the comprehension over the dict's values or over the list, left to right
recursive_mask_items(items_, combined, allowed, sd) ==
    IF items_ = <<>> THEN [items |-> <<>>, mapping |-> combined]
    ELSE LET r == recursive_mask(Head(items_), combined, allowed, sd)
             rest == recursive_mask_items(Tail(items_), r.mapping, allowed, sd)
         IN  [items |-> <<r.value>> \o rest.items, mapping |-> rest.mapping]

\* some str is reached by recursive_mask, so mask is called
RECURSIVE calls_mask(_)
calls_mask(item) ==
    \/ item.kind = "str"
    \/ /\ item.kind \in {"dict", "list"}
       /\ \E i \in 1..Len(item.items) : calls_mask(item.items[i])

mask_struct(data_arg, allowed, sd) ==
    LET r == recursive_mask(data_arg, <<>>, allowed, sd)
    IN  [text |-> r.value, mapping |-> r.mapping]

MaskStructCall(data_arg) ==
    /\ pc = "idle"
    /\ data' = data_arg
    /\ ret' = IF analyzer_missing(analyzer) /\ calls_mask(data_arg)
              THEN [kind |-> "RuntimeError", text |-> <<>>, mapping |-> <<>>]
              ELSE LET r == mask_struct(data_arg, allow_list, seed)
                   IN  [kind |-> "mask_struct", text |-> r.text, mapping |-> r.mapping]
    /\ pc' = "done"
    /\ UNCHANGED << engine_state, other, text, analyzed, results, current, idx,
                    final_results, merged_results, masked_text, mapping, items,
                    unmasked_text, step, applied, roundtrip >>

(***************************************************************************)
(* Calls from another thread                                               *)
(*                                                                         *)
(* A call of another thread on the same engine runs in its own frame: it   *)
(* reads the engine's attributes and its arguments, and what it returns    *)
(* goes to its caller.  It is taken here in one step, between two steps of *)
(* the call in progress.                                                   *)
(***************************************************************************)
MaskCallOf(text_arg, analyzed_arg) ==
    [op |-> "mask", text |-> text_arg, spans |-> analyzed_arg, mapping |-> <<>>,
     data |-> NoData]

MaskStructCallOf(data_arg) ==
    [op |-> "mask_struct", text |-> <<>>, spans |-> <<>>, mapping |-> <<>>,
     data |-> data_arg]

UnmaskCallOf(masked_text_arg, mapping_arg) ==
    [op |-> "unmask", text |-> masked_text_arg, spans |-> <<>>, mapping |-> mapping_arg,
     data |-> NoData]

\* what the call returns or raises on an engine with these attributes
call_result(c, a, allowed, sd) ==
    IF c.op = "unmask"
    THEN [kind |-> "unmask", text |-> unmask(c.text, c.mapping), mapping |-> <<>>]
    ELSE IF analyzer_missing(a) /\ (c.op = "mask" \/ calls_mask(c.data))
    THEN [kind |-> "RuntimeError", text |-> <<>>, mapping |-> <<>>]
    ELSE IF c.op = "mask"
    THEN LET r == mask(c.text, c.spans, allowed, sd)
         IN  [kind |-> "mask", text |-> r.text, mapping |-> r.mapping]
    ELSE LET r == mask_struct(c.data, allowed, sd)
         IN  [kind |-> "mask_struct", text |-> r.text, mapping |-> r.mapping]

\* the other thread's call c runs while this thread's call is in progress
OtherThreadCall(c) ==
    /\ pc \in {"resolve", "merge", "subst", "unmask"}
    /\ other' = Append(other, [call |-> c, ret |-> call_result(c, analyzer, allow_list, seed)])
    /\ UNCHANGED << engine_state, data, pc, text, analyzed, results, current, idx,
                    final_results, merged_results, masked_text, mapping, items,
                    unmasked_text, ret, step, applied, roundtrip >>

(***************************************************************************)
(* The inputs of the model                                                 *)
(*                                                                         *)
(* The recognizer is outside the repository: analyze() may return any list *)
(* of spans with 0 <= start < end <= len(text), in any order.  A score is  *)
(* a confidence level; only the order of two scores matters to the engine. *)
(***************************************************************************)
MaxSpans == 3

MaxGap == 4

MaxKeys == 3

Scores == {1, 2}

Span(t, s, e, sc) == [entity_type |-> t, start |-> s, end |-> e, score |-> sc]

SeqsUpTo(S, n) == UNION {[1..k -> S] : k \in 0..n}

\* Overlap family: every list of up to MaxSpans spans over one short text.
OverlapText == <<"A", "b", "c">>

OverlapSpans ==
    { Span(PERSON, p[1], p[2], sc) :
        p \in {q \in (0..2) \X (1..3) : q[1] < q[2]}, sc \in Scores }

OverlapInputs ==
    {[text |-> OverlapText, results |-> r] : r \in SeqsUpTo(OverlapSpans, MaxSpans)}

\* Gap family: two one-character spans with every gap of up to MaxGap
\* characters between them.
GapChars == {" ", ",", ".", "-", "a"}

GapInputs ==
    { [text |-> <<"1">> \o g \o <<"2">>,
       results |-> << Span(tt[1], 0, 1, sc[1]),
                      Span(tt[2], Len(g) + 1, Len(g) + 2, sc[2]) >>] :
        g \in SeqsUpTo(GapChars, MaxGap),
        tt \in {<<DATE_TIME, DATE_TIME>>, <<DATE_TIME, PERSON>>, <<PERSON, DATE_TIME>>},
        sc \in {<<1, 2>>, <<2, 1>>} }

\* Literal family: two literals separated by a space, both detected with one
\* category, or the second one alone.
Literals ==
    { <<"a","@","x">>, <<"b","@","x">>, <<"A","b">>, <<"A","B">>, <<"I">>,
      <<"N","y">>, <<"N","1">>, <<"W","a","y">>, <<"1",","," ","B","o">>,
      <<"+","1">>, <<"d","e","7">>, <<"{","E","m","a","i","l","}">> }

Categories ==
    { PERSON, DATE_TIME, IBAN_CODE, DE_ID_CARD, EMAIL_ADDRESS, PHONE_NUMBER,
      LOCATION, NRP, US_PASSPORT, US_DRIVER_LICENSE, URL }

LiteralInputs ==
    { [text |-> w1 \o <<" ">> \o w2,
       results |-> IF both
                   THEN << Span(t, 0, Len(w1), 1),
                           Span(t, Len(w1) + 1, Len(w1) + 1 + Len(w2), 1) >>
                   ELSE << Span(t, Len(w1) + 1, Len(w1) + 1 + Len(w2), 1) >>] :
        w1 \in Literals, w2 \in Literals, t \in Categories, both \in BOOLEAN }

\* Blank family: empty and whitespace-only texts, with no span or one span.
BlankTexts == { <<>>, <<" ">>, <<" ", " ">>, <<"\t", "\n">> }

BlankInputs ==
    {[text |-> b, results |-> <<>>] : b \in BlankTexts} \cup
    {[text |-> b, results |-> <<Span(t, 0, Len(b), 1)>>] :
        b \in BlankTexts \ {<<>>}, t \in {NRP, LOCATION}}

\* Scenario family: a sentence with a name and an e-mail address, detected
\* as PERSON and EMAIL_ADDRESS, in either order.
ScenarioNames == { <<"A","B">>, <<"B","o"," ","L","i">> }

ScenarioEmails == { <<"a","@","x">>, <<"c","@","d","@","e",".","f">> }

ScenarioInputs ==
    { [text |-> w[1] \o <<" ">> \o w[2] \o <<".">>,
       results |-> IF first_listed = 1
                   THEN << Span(t[1], 0, Len(w[1]), 1),
                           Span(t[2], Len(w[1]) + 1, Len(w[1]) + 1 + Len(w[2]), 2) >>
                   ELSE << Span(t[2], Len(w[1]) + 1, Len(w[1]) + 1 + Len(w[2]), 2),
                           Span(t[1], 0, Len(w[1]), 1) >>] :
        w \in (ScenarioNames \X ScenarioEmails) \cup (ScenarioEmails \X ScenarioNames),
        t \in {<<PERSON, EMAIL_ADDRESS>>, <<EMAIL_ADDRESS, PERSON>>},
        first_listed \in {1, 2} }

MaskInputs ==
    OverlapInputs \cup GapInputs \cup LiteralInputs \cup BlankInputs \cup
    {inp \in ScenarioInputs :
        \A i \in 1..2 :
            (inp.results[i].entity_type = EMAIL_ADDRESS) <=>
                ("@" \in Range(Slice(inp.text, inp.results[i].start, inp.results[i].end)))}

\* A later text that echoes the tokens of a mapping mask returned: the tokens
\* in another order, and repeated, with other text around them.
EchoTexts(m) ==
    { m[Len(m)][1] \o <<",", " ">> \o m[1][1],
      <<"s","e","e"," ">> \o m[1][1] \o m[Len(m)][1] \o <<" ">> \o m[1][1] }

\* What a caller may hand to unmask besides a pair mask returned: every text of
\* up to 3 characters with every mapping of up to MaxKeys items, and the
\* specification's own example.
UnmaskTexts == SeqsUpTo({"a", "b"}, 3)

UnmaskKeys == { <<"a">>, <<"b">>, <<"a","b">>, <<"b","a">> }

UnmaskValues == { <<"c">>, <<"a">> }

UnmaskMappings ==
    { m \in SeqsUpTo(UnmaskKeys \X UnmaskValues, MaxKeys) :
        \A i, j \in 1..Len(m) : i # j => m[i][1] # m[j][1] }

Name_ab == <<"{","N","a","m","e","_","a","b","}">>

Name_ab1 == <<"{","N","a","m","e","_","a","b","1","}">>

ExampleText == Name_ab1 \o <<" ","m","e","t"," ">> \o Name_ab

ExampleMapping == << <<Name_ab, <<"A","l">>>>, <<Name_ab1, <<"B","o","b">>>> >>

UnmaskInputs ==
    {[text |-> t, mapping |-> m] : t \in UnmaskTexts, m \in UnmaskMappings} \cup
    {[text |-> ExampleText, mapping |-> ExampleMapping]}

\* What a caller may hand to mask_struct: str leaves with what analyze()
\* returns for them, other primitives, and lists and dicts of them, nested.
MaxItems == 2

StructLeaves ==
    { StrValue(<<"a","@","x">>, <<Span(EMAIL_ADDRESS, 0, 3, 1)>>),
      StrValue(<<"b","@","x">>, <<Span(EMAIL_ADDRESS, 0, 3, 1)>>),
      StrValue(<<"A","b"," ","N","y">>, <<Span(PERSON, 0, 2, 1), Span(LOCATION, 3, 5, 1)>>),
      StrValue(<<"N","y">>, <<>>),
      OtherValue(<<"i","n","t">>) }

StructLists == {ListValue(l) : l \in SeqsUpTo(StructLeaves, MaxItems)}

StructInputs ==
    StructLeaves \cup StructLists \cup
    { DictValue(<<"k", "j">>, <<x, y>>) : x \in StructLeaves, y \in StructLists } \cup
    { ListValue(<< DictValue(<<"k">>, <<x>>), y >>) : x \in StructLeaves, y \in StructLeaves }

\* The constructor's arguments
AllowListArgs == { <<>>, << <<"A","b">>, <<"N","1">> >> }

Seeds == { <<>>, <<"s">> }

(***************************************************************************)
(* The specification                                                       *)
(***************************************************************************)
Init ==
    \E a \in AllowListArgs, sd \in Seeds, loads \in BOOLEAN : Construct(a, sd, loads)

\* The families an engine is called with.  The overlap family holds names
\* only, whose placeholders differ by the seed in their hash and in nothing
\* else, so it runs on the engines without a seed; the gap family holds no
\* literal an allow-list entry or a stop word matches, and unmask reads
\* neither attribute, so they run on the engines without seed and allow-list.
MaskInputsOn(a, sd) ==
    (MaskInputs \ (IF sd = <<>> THEN {} ELSE OverlapInputs))
        \ (IF sd = <<>> /\ a = <<>> THEN {} ELSE GapInputs)

UnmaskInputsOn(a, sd) == IF sd = <<>> /\ a = <<>> THEN UnmaskInputs ELSE {}

Mask ==
    /\ pc = "idle"
    /\ \E inp \in MaskInputsOn(allow_list_arg, seed) : MaskCall(inp.text, inp.results)

Unmask ==
    /\ pc = "idle"
    /\ \E inp \in UnmaskInputsOn(allow_list_arg, seed) :
           UnmaskEnter(inp.text, inp.mapping, FALSE)

MaskStruct == pc = "idle" /\ \E d \in StructInputs : MaskStructCall(d)

\* unmask(*mask(text)): the pair the last mask call returned, unaltered
UnmaskMasked == pc = "done" /\ ret.kind = "mask" /\ UnmaskEnter(ret.text, ret.mapping, TRUE)

\* unmask of a later text with the mapping of a mask call on a text in which
\* a PERSON and an EMAIL_ADDRESS were detected
UnmaskEcho ==
    /\ pc = "done"
    /\ ret.kind = "mask"
    /\ ret.mapping # <<>>
    /\ {analyzed[i].entity_type : i \in 1..Len(analyzed)} = {PERSON, EMAIL_ADDRESS}
    /\ \E e \in EchoTexts(ret.mapping) : UnmaskEnter(e, ret.mapping, FALSE)

Next ==
    \/ Mask
    \/ ResolveStep
    \/ ResolveDone
    \/ MergeStep
    \/ MergeDone
    \/ SubstStep
    \/ MaskReturn
    \/ MaskStruct
    \/ Unmask
    \/ UnmaskMasked
    \/ UnmaskEcho
    \/ UnmaskStep
    \/ UnmaskReturn
    \/ Discard

Spec == Init /\ [][Next]_vars

(***************************************************************************)
(* Two threads on one engine: the calls of one are followed step by step,  *)
(* the calls of the other fall between those steps.                        *)
(***************************************************************************)
MaxOtherCalls == 2

ThreadMaskInputs ==
    { [text |-> <<"A","B"," ","b","@","x">>,
       results |-> << Span(EMAIL_ADDRESS, 3, 6, 1), Span(PERSON, 0, 2, 1) >>],
      [text |-> <<"1",","," ","2">>,
       results |-> << Span(DATE_TIME, 0, 1, 1), Span(DATE_TIME, 3, 4, 2) >>],
      [text |-> OverlapText,
       results |-> << Span(PERSON, 1, 3, 2), Span(PERSON, 0, 2, 1) >>] }

ThreadUnmaskInputs ==
    { [text |-> ExampleText, mapping |-> ExampleMapping],
      [text |-> <<"a","b","a">>,
       mapping |-> << <<<<"a">>, <<"c">>>>, <<<<"a","b">>, <<"c">>>> >>] }

OtherCalls ==
    { MaskCallOf(<<"a","@","x"," ","A","B">>,
                 << Span(EMAIL_ADDRESS, 0, 3, 1), Span(PERSON, 4, 6, 1) >>),
      MaskStructCallOf(ListValue(<< StrValue(<<"N","1">>, <<Span(LOCATION, 0, 2, 1)>>),
                                    OtherValue(<<"i","n","t">>) >>)),
      UnmaskCallOf(ExampleText, ExampleMapping) }

MaskThread == pc = "idle" /\ \E inp \in ThreadMaskInputs : MaskCall(inp.text, inp.results)

UnmaskThread ==
    pc = "idle" /\ \E inp \in ThreadUnmaskInputs : UnmaskEnter(inp.text, inp.mapping, FALSE)

OtherThread == Len(other) < MaxOtherCalls /\ \E c \in OtherCalls : OtherThreadCall(c)

NextThreads ==
    \/ MaskThread
    \/ ResolveStep
    \/ ResolveDone
    \/ MergeStep
    \/ MergeDone
    \/ SubstStep
    \/ MaskReturn
    \/ UnmaskThread
    \/ UnmaskMasked
    \/ UnmaskStep
    \/ UnmaskReturn
    \/ OtherThread
    \/ Discard

SpecThreads == Init /\ [][NextThreads]_vars

(***************************************************************************)
(* Claims                                                                  *)
(***************************************************************************)
\* unmask(*mask(text)) has returned
RoundTripDone == pc = "done" /\ roundtrip /\ ret.kind = "unmask"

\* the text holds no generated placeholder
NoPlaceholderInText == \A k \in Keys(mapping) : ~Contains(text, k)

\* C1: round trip.  For every text that holds no generated placeholder and
\* every list of spans the recognizer returns for it, unmask(*mask(text)) is
\* the text, also when several masked spans have different literals.
C1_RoundTrip == (RoundTripDone /\ NoPlaceholderInText) => ret.text = text

\* _remove_overlaps has returned final_results to the mask call in progress
ResolverReturned == pc \in {"merge", "subst"} \/ (pc = "done" /\ ret.kind = "mask")

Overlapping(a, b) == a.start < b.end /\ b.start < a.end

\* C2: non-overlap.  The list _remove_overlaps returns is sorted by ascending
\* start, every two consecutive spans a, b of it satisfy a.end <= b.start, and
\* so no two spans of it overlap.
C2_NonOverlap ==
    ResolverReturned =>
        /\ \A i \in 1..(Len(final_results) - 1) :
              /\ final_results[i].start <= final_results[i + 1].start
              /\ final_results[i].end <= final_results[i + 1].start
        /\ \A i, j \in 1..Len(final_results) :
              i # j => ~Overlapping(final_results[i], final_results[j])

\* three spans came in, two of them overlapping, and two went out
C2_Witness ==
    /\ pc = "merge"
    /\ Len(analyzed) = 3
    /\ Len(final_results) = 2
    /\ \E i, j \in 1..3 : i # j /\ Overlapping(analyzed[i], analyzed[j])

SpanLen(r) == r.end - r.start

\* C3: tie-break order.  In the scan over the spans sorted by start, the next
\* span meets the overlap branch exactly when it starts before the end of the
\* retained span; there it replaces the retained span exactly when its score
\* is strictly higher, or equal with a strictly greater length; otherwise
\* (lower score, or equal score and no greater length) the retained span stays.
C3_TieBreak ==
    step.op \in {"overlap", "disjoint"} =>
        /\ step.op = "overlap" <=> step.next.start < step.current.end
        /\ step.op = "overlap" =>
              step.kept =
                 IF \/ step.next.score > step.current.score
                    \/ /\ step.next.score = step.current.score
                       /\ SpanLen(step.next) > SpanLen(step.current)
                 THEN step.next
                 ELSE step.current

\* two different overlapping spans of equal score and equal length: the
\* earlier one stays
C3_Witness ==
    /\ step.op = "overlap"
    /\ step.next # step.current
    /\ step.next.score = step.current.score
    /\ SpanLen(step.next) = SpanLen(step.current)
    /\ step.kept = step.current

GapChar(c) == IsSpace(c) \/ c \in {",", ".", "-"}

MergedOf(a, b) ==
    [entity_type |-> DATE_TIME, start |-> a.start, end |-> b.end,
     score |-> IF a.score >= b.score THEN a.score ELSE b.score]

\* C4 as claimed: two consecutive DATE_TIME spans are fused into
\* [first.start, second.end) with the greater score exactly when the gap
\* between them has a length from 0 to 3 and holds only whitespace, commas,
\* periods or hyphens; otherwise both stay separate.
C4_MergeFromLengthZero ==
    step.op \in {"merged", "separate"} =>
        LET mergeable ==
                /\ step.current.entity_type = DATE_TIME
                /\ step.next.entity_type = DATE_TIME
                /\ Len(step.gap) <= 3
                /\ \A i \in 1..Len(step.gap) : GapChar(step.gap[i])
        IN  /\ step.op = "merged" <=> mergeable
            /\ step.kept = IF mergeable THEN MergedOf(step.current, step.next)
                           ELSE step.next

\* C4, amended: the same with a gap of length 1 to 3; two DATE_TIME spans with
\* nothing between them stay separate.  When the spans stay separate the first
\* one is emitted as it is.
C4_MergeBoundary ==
    step.op \in {"merged", "separate"} =>
        LET mergeable ==
                /\ step.current.entity_type = DATE_TIME
                /\ step.next.entity_type = DATE_TIME
                /\ Len(step.gap) >= 1
                /\ Len(step.gap) <= 3
                /\ \A i \in 1..Len(step.gap) : GapChar(step.gap[i])
        IN  /\ step.op = "merged" <=> mergeable
            /\ step.kept = IF mergeable THEN MergedOf(step.current, step.next)
                           ELSE step.next
            /\ ~mergeable => merged_results[Len(merged_results)] = step.current
            /\ step.gap = Slice(text, step.current.end, step.next.start)

\* a merge over a gap of exactly three characters, the second score the greater
C4_Witness ==
    /\ step.op = "merged"
    /\ Len(step.gap) = 3
    /\ step.next.score > step.current.score
    /\ step.kept.score = step.next.score

\* the substitution loop is about to process results[idx]
AtSubst == pc = "subst" /\ idx <= Len(results)

SubstLiteral == Slice(text, results[idx].start, results[idx].end)

EqualIgnoringCase(a, b) ==
    Len(a) = Len(b) /\ \A i \in 1..Len(a) : UpperChar(a[i]) = UpperChar(b[i])

\* the literal is an entry of the allow-list given at construction or a
\* built-in stop word, in any letter case
AllowListed(lit) ==
    \E entry \in Range(allow_list_arg) \cup STOP_WORDS : EqualIgnoringCase(lit, entry)

\* C5: allow-list case-insensitivity.  A selected span whose literal equals an
\* allow-list entry or a stop word ignoring case is not replaced and gets no
\* mapping entry: its iteration leaves the working text and the mapping as
\* they were, and the text at the span still is the literal.
C5_AllowList ==
    [][ (AtSubst /\ AllowListed(SubstLiteral)) =>
            /\ masked_text' = masked_text
            /\ mapping' = mapping
            /\ Slice(masked_text', results[idx].start, results[idx].end) = SubstLiteral
      ]_vars

\* a span was left alone whose literal differs in case from the entry given
C5_Witness ==
    /\ step.op = "allowed"
    /\ step.entity_text \notin Range(allow_list_arg) \cup STOP_WORDS
    /\ \E entry \in Range(allow_list_arg) : EqualIgnoringCase(step.entity_text, entry)
    /\ mapping # <<>>

\* C7: engine unavailable.  With analyzer None every mask call raises and
\* returns no pair, whatever calls came before; the engine stays unusable and
\* no call changes the engine's attributes.
C7_EngineUnavailable ==
    [][ analyzer = "None" =>
            /\ analyzer' = "None"
            /\ allow_list' = allow_list
            /\ seed' = seed
            /\ ret'.kind # "mask"
            /\ pc' \notin {"resolve", "merge", "subst"}
            /\ (pc = "idle" /\ pc' # "unmask" /\ (data' = NoData \/ calls_mask(data'))) =>
                   (pc' = "done" /\ ret'.kind = "RuntimeError")
      ]_vars

\* a mask call on a non-empty text has raised on an engine without analyzer
C7_Witness ==
    analyzer = "None" /\ pc = "done" /\ ret.kind = "RuntimeError" /\ text # <<>>

Blank(t) == \A i \in 1..Len(t) : IsSpace(t[i])

\* a mask call on a usable engine has returned or raised
MaskEnded == pc = "done" /\ analyzer = "engine" /\ ret.kind \in {"mask", "RuntimeError"}

\* C8 as claimed: for an empty or whitespace-only text, mask on a usable
\* engine returns the empty text and an empty mapping and raises no error.
C8_BlankGivesEmptyText ==
    (MaskEnded /\ Blank(text)) =>
        (ret.kind = "mask" /\ ret.text = <<>> /\ ret.mapping = <<>>)

\* C8, amended: for an empty or whitespace-only text for which the recognizer
\* reports no span, mask on a usable engine returns the text as it is (the
\* empty text only for the empty text) and an empty mapping, and raises no
\* error.
C8_BlankUnchanged ==
    (MaskEnded /\ Blank(text) /\ analyzed = <<>>) =>
        (ret.kind = "mask" /\ ret.text = text /\ ret.mapping = <<>>)

C8_Witness ==
    /\ MaskEnded
    /\ text = <<" ", " ">>
    /\ analyzed = <<>>
    /\ ret.text = <<" ", " ">>
    /\ ret.mapping = <<>>

UnmaskReturned == pc = "done" /\ ret.kind = "unmask"

\* C9: unmask is total and leaves unmatched text alone.  An unmask call in
\* progress can always take its next step, with or without an analyzer, and
\* when no key of the mapping occurs in the text it returns the text.
C9_UnmaskTotal ==
    /\ pc = "unmask" => ENABLED (UnmaskStep \/ UnmaskReturn)
    /\ (UnmaskReturned /\ \A k \in Keys(mapping) : ~Contains(masked_text, k)) =>
           ret.text = masked_text

\* on an engine without analyzer, a text came back unchanged from a mapping of
\* two keys that do not occur in it
C9_Witness ==
    /\ UnmaskReturned
    /\ analyzer = "None"
    /\ masked_text # <<>>
    /\ Len(mapping) >= 2
    /\ \A k \in Keys(mapping) : ~Contains(masked_text, k)
    /\ ret.text = masked_text

\* k1 is a key other than k2 that occurs in k2
ProperSubstring(k1, k2) == k1 # k2 /\ Contains(k2, k1)

\* unmask visits every key of the mapping once, longest first
AppliedLongestFirst ==
    /\ Len(applied) = Len(mapping)
    /\ {applied[j].key : j \in 1..Len(applied)} = Keys(mapping)
    /\ \A i, j \in 1..Len(applied) :
           i < j => Len(applied[i].key) >= Len(applied[j].key)

HasPrefix(s, pre) == Len(s) >= Len(pre) /\ SubSeq(s, 1, Len(pre)) = pre

\* has_digits or has_address_indicator, read off the literal
SpecificAddress(lit) ==
    \/ \E i \in 1..Len(lit) : IsDigit(lit[i])
    \/ \E ind \in ADDRESS_INDICATORS : Contains(Lower(lit), ind)

\* the iteration for results[idx] puts an {Address_...} placeholder in the
\* place of the literal, mapped to the literal, and leaves the rest alone
ReplacedByAddress ==
    LET r == results[idx]
        tail == Len(masked_text) - r.end
        cut == Len(masked_text') - tail
        placeholder == SubSeq(masked_text', r.start + 1, cut)
    IN  /\ cut > r.start
        /\ SubSeq(masked_text', 1, r.start) = SubSeq(masked_text, 1, r.start)
        /\ SubSeq(masked_text', cut + 1, Len(masked_text'))
               = SubSeq(masked_text, r.end + 1, Len(masked_text))
        /\ HasPrefix(placeholder, <<"{","A","d","d","r","e","s","s","_">>)
        /\ placeholder[Len(placeholder)] = "}"
        /\ placeholder \in Keys(mapping')
        /\ Get(mapping', placeholder) = SubstLiteral

\* the iteration for results[idx] leaves the literal where it is and adds
\* nothing to the mapping
LeftVisible ==
    /\ masked_text' = masked_text
    /\ mapping' = mapping
    /\ Slice(masked_text', results[idx].start, results[idx].end) = SubstLiteral

\* C10 as claimed: a selected LOCATION span whose literal has no digit and no
\* address indicator yields no placeholder, the literal stays and no mapping
\* entry has it as value; a LOCATION literal with a digit or an address
\* indicator is always replaced by an {Address_...} placeholder.
C10_AddressAlwaysReplaced ==
    [][ (AtSubst /\ results[idx].entity_type = LOCATION) =>
            IF SpecificAddress(SubstLiteral)
            THEN ReplacedByAddress
            ELSE LeftVisible /\ SubstLiteral \notin Values(mapping')
      ]_vars

\* C10, amended: a selected LOCATION span whose literal has no digit and no
\* address indicator yields no placeholder, the literal stays and its
\* iteration adds no mapping entry; a LOCATION literal with a digit or an
\* address indicator that is not allow-listed is replaced by an {Address_...}
\* placeholder, and one that is allow-listed is left as it is.
C10_GenericLocation ==
    [][ (AtSubst /\ results[idx].entity_type = LOCATION) =>
            IF SpecificAddress(SubstLiteral) /\ ~AllowListed(SubstLiteral)
            THEN ReplacedByAddress
            ELSE LeftVisible
      ]_vars

\* a generic location was left visible in a text whose other location, an
\* address, has already got its placeholder
C10_Witness ==
    /\ step.op = "visible"
    /\ results[idx - 1].entity_type = LOCATION
    /\ ~SpecificAddress(step.entity_text)
    /\ step.entity_text = Slice(masked_text, results[idx - 1].start, results[idx - 1].end)
    /\ \E k \in Keys(mapping) : HasPrefix(k, <<"{","A","d","d","r","e","s","s","_">>)
    /\ step.entity_text \notin Values(mapping)

\* the leaves of a value in depth-first order
RECURSIVE LeavesOf(_)
RECURSIVE LeavesOfItems(_)
LeavesOf(v) ==
    IF v.kind \in {"dict", "list"} THEN LeavesOfItems(v.items) ELSE <<v>>

LeavesOfItems(items_) ==
    IF items_ = <<>> THEN <<>>
    ELSE LeavesOf(Head(items_)) \o LeavesOfItems(Tail(items_))

\* same dict keys, same list lengths and order, a leaf where there was a leaf
RECURSIVE SameShape(_, _)
SameShape(v, w) ==
    /\ v.kind = w.kind
    /\ v.keys = w.keys
    /\ Len(v.items) = Len(w.items)
    /\ \A i \in 1..Len(v.items) : SameShape(v.items[i], w.items[i])

\* what mask returns for a str leaf on this engine
LeafMask(leaf) == mask(leaf.val, leaf.spans, allow_list, seed)

MaskStructReturned == pc = "done" /\ ret.kind = "mask_struct"

\* C11: structured masking.  mask_struct returns a value of the same shape in
\* which every str leaf is the text mask returns for it and every other leaf
\* is unchanged; the mapping returned has the keys of all per-leaf mappings,
\* each with the value of the last leaf in depth-first order that has it.
C11_MaskStruct ==
    MaskStructReturned =>
        LET leaves == LeavesOf(data)
            masked == LeavesOf(ret.text)
            strs == {i \in 1..Len(leaves) : leaves[i].kind = "str"}
        IN  /\ SameShape(data, ret.text)
            /\ Len(masked) = Len(leaves)
            /\ \A i \in 1..Len(leaves) :
                   IF i \in strs
                   THEN masked[i].kind = "str" /\ masked[i].val = LeafMask(leaves[i]).text
                   ELSE masked[i] = leaves[i]
            /\ Keys(ret.mapping) = UNION {Keys(LeafMask(leaves[i]).mapping) : i \in strs}
            /\ \A k \in Keys(ret.mapping) :
                   LET last == CHOOSE i \in strs :
                                   /\ k \in Keys(LeafMask(leaves[i]).mapping)
                                   /\ \A j \in strs :
                                          k \in Keys(LeafMask(leaves[j]).mapping) => j <= i
                   IN  Get(ret.mapping, k) = Get(LeafMask(leaves[last]).mapping, k)

\* a dict holding a str, and a list of a str and another primitive, came
\* back with one entry for the placeholder both strs produce
C11_Witness ==
    /\ MaskStructReturned
    /\ data.kind = "dict"
    /\ LET leaves == LeavesOf(data)
       IN  /\ Len(leaves) = 3
           /\ leaves[1].kind = "str" /\ leaves[2].kind = "str" /\ leaves[3].kind = "other"
           /\ LeafMask(leaves[1]).mapping # LeafMask(leaves[2]).mapping
           /\ Keys(LeafMask(leaves[1]).mapping) = Keys(LeafMask(leaves[2]).mapping)
    /\ Len(ret.mapping) = 1
    /\ ret.text # data

MaskReturned == pc = "done" /\ ret.kind = "mask"

LowerHex ==
    {"0", "1", "2", "3", "4", "5", "6", "7", "8", "9", "a", "b", "c", "d", "e", "f"}

\* the placeholder prefixes that are followed by a hash suffix
HashedPrefixes ==
    { <<"{","N","a","m","e","_">>, <<"{","N","a","t","i","o","n","a","l","i","t","y","_">>,
      <<"{","A","d","d","r","e","s","s","_">>, <<"{","U","R","L","_">> }

\* the digest of the literal followed by the seed, as five hexadecimal digits
SuffixOf(literal, sd) == HexDigest5(Md5Num(literal \o sd, 54321))

\* every hashed placeholder of the mapping returned is its prefix, five
\* lowercase hexadecimal characters that the literal and the seed fix, and "}"
KeysHashStable ==
    MaskReturned =>
        \A i \in 1..Len(ret.mapping) :
            LET k == ret.mapping[i][1]
                literal == ret.mapping[i][2]
            IN  \A pre \in HashedPrefixes :
                    (HasPrefix(k, pre)
                        /\ ~HasPrefix(k, <<"{","A","d","d","r","e","s","s","_","i","n","_">>)) =>
                        LET suffix == SubSeq(k, Len(pre) + 1, Len(k) - 1)
                        IN  /\ Len(suffix) = 5
                            /\ \A j \in 1..Len(suffix) : suffix[j] \in LowerHex
                            /\ suffix = SuffixOf(literal, seed)
                            /\ k[Len(k)] = "}"

ResultsAsAlone ==
    /\ MaskReturned =>
           ret = call_result(MaskCallOf(text, analyzed), analyzer, allow_list, seed)
    /\ UnmaskReturned =>
           ret = call_result(UnmaskCallOf(masked_text, mapping), analyzer, allow_list, seed)
    /\ \A i \in 1..Len(other) :
           other[i].ret = call_result(other[i].call, analyzer, allow_list, seed)

SpanSynthesized == step.op \in {"masked", "visible"}

HasSuffix(s, suf) ==
    Len(s) >= Len(suf) /\ SubSeq(s, Len(s) - Len(suf) + 1, Len(s)) = suf

Levels == {"KeepVisible", "MaskAll", "HashOnly", "Context", "Partial"}

\* the outcome of the span just decided is the outcome the level prescribes
ObeysLevel(level) ==
    LET category == step.current.entity_type
    IN  CASE level = "KeepVisible" -> step.op = "visible"
          [] level = "MaskAll" ->
                step.op = "masked" /\ step.surrogate = <<"{">> \o category \o <<"}">>
          [] level = "HashOnly" ->
                /\ step.op = "masked"
                /\ step.surrogate = <<"{">> \o category \o <<"_">>
                                      \o SuffixOf(step.entity_text, seed) \o <<"}">>
          [] OTHER -> TRUE

CategoryStrategy(category, literal, surrogate) ==
    LET hashed(tag) == surrogate = <<"{">> \o tag \o <<"_">> \o SuffixOf(literal, seed) \o <<"}">>
    IN  CASE category = PERSON -> hashed(<<"N","a","m","e">>)
          [] category = NRP -> hashed(<<"N","a","t","i","o","n","a","l","i","t","y">>)
          [] category = DATE_TIME -> HasPrefix(surrogate, <<"{","D","a","t","e","_">>)
          [] category = IBAN_CODE -> HasSuffix(surrogate, <<"I","B","A","N","}">>)
          [] category = DE_ID_CARD ->
                surrogate = <<"{","G","e","r","m","a","n","_","I","D","}">>
          [] category = EMAIL_ADDRESS -> HasPrefix(surrogate, <<"{","E","m","a","i","l">>)
          [] category = PHONE_NUMBER -> HasPrefix(surrogate, <<"{","P","h","o","n","e">>)
          [] category = LOCATION ->
                HasPrefix(surrogate, <<"{","A","d","d","r","e","s","s","_">>)
          [] category = US_PASSPORT ->
                surrogate = <<"{","U","S","_","P","a","s","s","p","o","r","t","}">>
          [] category = US_DRIVER_LICENSE ->
                surrogate = <<"{","U","S","_","D","r","i","v","e","r","_",
                              "L","i","c","e","n","s","e","}">>
          [] OTHER -> hashed(category)

PersonAndEmail ==
    /\ Len(merged_results) = 2
    /\ {merged_results[i].entity_type : i \in 1..2} = {PERSON, EMAIL_ADDRESS}
    /\ \A i \in 1..2 :
           LET literal == Slice(text, merged_results[i].start, merged_results[i].end)
           IN  /\ ~AllowListed(literal)
               /\ merged_results[i].entity_type = EMAIL_ADDRESS => "@" \in Range(literal)

\* the part of an e-mail literal after its last "@"
DomainOf(literal) ==
    LET at == CHOOSE i \in 1..Len(literal) :
                  literal[i] = "@" /\ \A j \in (i + 1)..Len(literal) : literal[j] # "@"
    IN  SubSeq(literal, at + 1, Len(literal))

EmailToken(literal) ==
    <<"{","E","m","a","i","l","_","a","t","_">> \o DomainOf(literal) \o <<"}">>

\* the text with the two spans replaced by the tokens of their categories,
\* the person's token being prefix + hash + "}"
ScenarioMasked(person_prefix) ==
    LET r1 == merged_results[1]
        r2 == merged_results[2]
        token(r) ==
            LET literal == Slice(text, r.start, r.end)
            IN  IF r.entity_type = PERSON
                THEN person_prefix \o SuffixOf(literal, seed) \o <<"}">>
                ELSE EmailToken(literal)
    IN  Slice(text, 0, r1.start) \o token(r1) \o Slice(text, r1.end, r2.start)
            \o token(r2) \o Slice(text, r2.end, Len(text))

\* unmask has returned for a mapping of a {Name_...} and an {Email_at_...}
\* token and a text that holds both tokens
EchoRestored ==
    /\ UnmaskReturned
    /\ Len(mapping) = 2
    /\ \E i \in 1..2 : HasPrefix(mapping[i][1], <<"{","N","a","m","e","_">>)
    /\ \E i \in 1..2 : HasPrefix(mapping[i][1], <<"{","E","m","a","i","l","_","a","t","_">>)
    /\ \A i \in 1..2 : Contains(masked_text, mapping[i][1])

LiteralOf(r) == Slice(text, r.start, r.end)

\* the candidates of the call whose lower-cased literal is not in the allow-list
NotAllowListed(candidates) ==
    SelectSeq(candidates, LAMBDA r : ~in_allow_list(LiteralOf(r), allow_list))

\* the span an overlap step of _remove_overlaps dropped
DroppedBy(st) == IF st.kept = st.current THEN st.next ELSE st.current

\* C16: allow-list filtering comes first.  No overlap step keeps an
\* allow-listed candidate and drops one that is not allow-listed, no merge step
\* fuses an allow-listed span with a neighbouring date, and what mask returns
\* is what it returns for the candidates that are not allow-listed alone.
C16_AllowListFirst ==
    /\ (pc = "resolve" /\ step.op = "overlap") =>
           ~ /\ in_allow_list(LiteralOf(step.kept), allow_list)
             /\ ~in_allow_list(LiteralOf(DroppedBy(step)), allow_list)
    /\ (pc = "merge" /\ step.op = "merged") =>
           /\ ~in_allow_list(LiteralOf(step.current), allow_list)
           /\ ~in_allow_list(LiteralOf(step.next), allow_list)
    /\ MaskReturned =>
           [text |-> ret.text, mapping |-> ret.mapping] =
               mask(text, NotAllowListed(analyzed), allow_list, seed)

(***************************************************************************)
(* C17: offsets during the substitution loop                               *)
(***************************************************************************)
\* C17: offsets stay valid during substitution.  The substitution loop runs
\* over the spans in strictly descending start order; whenever it is about to
\* process a span, the working text equals the original text up to the end of
\* that span, so the slice it replaces is the literal text[start:end]; and the
\* mapping entry an iteration writes holds that literal.
C17_OffsetsValid ==
    /\ pc = "subst" =>
           \A i \in 1..(Len(results) - 1) : results[i].start > results[i + 1].start
    /\ AtSubst =>
           /\ SubSeq(masked_text, 1, results[idx].end) = SubSeq(text, 1, results[idx].end)
           /\ Slice(masked_text, results[idx].start, results[idx].end) = SubstLiteral
    /\ (pc = "subst" /\ step.op = "masked") =>
           /\ Get(mapping, step.surrogate) = LiteralOf(step.current)
           /\ SubSeq(masked_text, 1, step.current.start) =
                  SubSeq(text, 1, step.current.start)

\* the loop is about to process its second span after it replaced the first
\* one by a placeholder of another length
C17_Witness ==
    /\ AtSubst
    /\ idx = 2
    /\ step.op = "masked"
    /\ Len(step.surrogate) # Len(step.entity_text)
    /\ Len(masked_text) # Len(text)
    /\ results[1].start > results[2].end

(***************************************************************************)
(* C18: two literals with one placeholder                                  *)
(***************************************************************************)
SurrogateOf(r) == _generate_surrogate(r.entity_type, LiteralOf(r), seed)

\* the substitution loop replaces the span
Masked(r) == ~in_allow_list(LiteralOf(r), allow_list) /\ SurrogateOf(r) # None

\* the positions, in the order of the substitution loop, of the spans the loop
\* has processed
Processed == 1..(IF pc = "subst" THEN idx - 1 ELSE Len(results))

\* two processed spans with different literals were given one placeholder
Collide(i, j) ==
    /\ i # j
    /\ Masked(results[i])
    /\ Masked(results[j])
    /\ SurrogateOf(results[i]) = SurrogateOf(results[j])
    /\ LiteralOf(results[i]) # LiteralOf(results[j])

\* the processed span with this placeholder that was written last
LastWritten(k) ==
    CHOOSE i \in Processed :
        /\ Masked(results[i]) /\ SurrogateOf(results[i]) = k
        /\ \A j \in Processed :
               (Masked(results[j]) /\ SurrogateOf(results[j]) = k) => j <= i

\* C18: placeholder-key collision.  When two masked spans of one mask call
\* with different literals get the same placeholder, the mapping holds exactly
\* one entry for it, the value is the literal of the span written last, which
\* at the return is the span with the smallest start offset, the placeholder
\* stands in the masked text once for each of the spans, and the call returns
\* its pair.
C18_Collision ==
    (pc = "subst" \/ (pc = "done" /\ ret.kind \in {"mask", "RuntimeError"})) =>
        \A i, j \in Processed :
            (i < j /\ Collide(i, j)) =>
                LET k == SurrogateOf(results[i])
                    same == {n \in Processed :
                                Masked(results[n]) /\ SurrogateOf(results[n]) = k}
                IN  /\ Cardinality({n \in 1..Len(mapping) : mapping[n][1] = k}) = 1
                    /\ Get(mapping, k) = LiteralOf(results[LastWritten(k)])
                    /\ Count(masked_text, k) >= Cardinality(same)
                    /\ pc = "done" =>
                           /\ ret = [kind |-> "mask", text |-> masked_text,
                                     mapping |-> mapping]
                           /\ \A n \in same :
                                  results[LastWritten(k)].start <= results[n].start

\* mask returned for two e-mail addresses of one domain
C18_Witness ==
    /\ MaskReturned
    /\ Len(results) = 2
    /\ Collide(1, 2)
    /\ Len(ret.mapping) = 1
    /\ ret.mapping[1][2] = LiteralOf(results[2])
    /\ Count(ret.text, ret.mapping[1][1]) = 2

(***************************************************************************)
(* C19: what _remove_overlaps drops                                        *)
(***************************************************************************)
\* C19: no detected span is dropped without a surviving overlap.  Every span
\* of the candidate list that _remove_overlaps leaves out of its result
\* overlaps at least one span that is in the result.
C19_DroppedOverlapsKept ==
    ResolverReturned =>
        \A i \in 1..Len(analyzed) :
            (analyzed[i] \notin Range(final_results)) =>
                \E j \in 1..Len(final_results) :
                    Overlapping(analyzed[i], final_results[j])

(***************************************************************************)
(* C20: the text outside the masked spans                                  *)
(***************************************************************************)
\* the original text from offset pos on, read from left to right, with every
\* masked span of the list replaced by its placeholder
RECURSIVE Rebuilt(_, _)
Rebuilt(pos, ascending) ==
    IF ascending = <<>> THEN SubSeq(text, pos + 1, Len(text))
    ELSE LET r == Head(ascending)
         IN  IF Masked(r)
             THEN SubSeq(text, pos + 1, r.start) \o SurrogateOf(r)
                      \o Rebuilt(r.end, Tail(ascending))
             ELSE Rebuilt(pos, Tail(ascending))

\* the spans of the substitution loop from left to right
LeftToRight == [i \in 1..Len(results) |-> results[Len(results) + 1 - i]]

\* C20: text outside masked spans is preserved.  The masked text mask returns
\* is the original text with each masked span replaced by its placeholder and
\* every other character kept in its place; every key of the returned mapping
\* occurs in the masked text and every value is the literal of a masked span;
\* when no span is masked the text comes back as it was with an empty mapping.
C20_OutsidePreserved ==
    MaskReturned =>
        /\ ret.text = Rebuilt(0, LeftToRight)
        /\ \A n \in 1..Len(ret.mapping) :
               /\ Contains(ret.text, ret.mapping[n][1])
               /\ \E i \in 1..Len(results) :
                      /\ Masked(results[i])
                      /\ ret.mapping[n][1] = SurrogateOf(results[i])
                      /\ ret.mapping[n][2] = LiteralOf(results[i])
        /\ (\A i \in 1..Len(results) : ~Masked(results[i])) =>
               (ret.text = text /\ ret.mapping = <<>>)

\* mask returned with two spans replaced, one span left alone or dropped, and
\* text before, between or after them
C20_Witness ==
    /\ MaskReturned
    /\ Len(ret.mapping) = 2
    /\ Len(analyzed) = 3
    /\ \E i \in 1..Len(text) :
           \A j \in 1..Len(results) :
               Masked(results[j]) => (i <= results[j].start \/ i > results[j].end)

=============================================================================
